---- MODULE Spec2Model ----
(***************************************************************************)
(* grpc-mcp-gateway: the MCP JSON-RPC request multiplexer MCPServeMux      *)
(* (runtime/servemux.go) with its tool registry, and the value bridge      *)
(* (runtime/convert.go) the bound tool handlers use.                       *)
(*                                                                         *)
(* Spec      one call of RegisterTool or ServeHTTP per step, with the      *)
(*           full request, registry and response data.                     *)
(* ConcSpec  NumProcs goroutines calling RegisterTool and ServeHTTP        *)
(*           concurrently, one step per lock operation, map access,        *)
(*           logger call and handler call, with mux.mu as a sync.RWMutex.  *)
(* HookSpec  ConcSpec for a mux built with WithRequestLogger;              *)
(*           HookLiveSpec adds the fairness of the goroutines' steps.      *)
(* DecSpec   one call of ToolFromMethod or ServiceFromService              *)
(*           (internal/annotations/parse.go), one step per loop pass.      *)
(* ArgSpec   one call of DecodeArgs (runtime/convert.go).                  *)
(***************************************************************************)
EXTENDS Integers, Sequences, FiniteSets, TLC

VARIABLES
    tools,      \* MCPServeMux.tools: map from tool name to *ToolHandler
    req,        \* the request handed to the last ServeHTTP call
    w,          \* the http.ResponseWriter after the last ServeHTTP call
    calls,      \* the tool.Handler invocations made by the last ServeHTTP call
    logged,     \* the requests handed to mux.requestLogger by the last call
    metadata,   \* MCPServeMux.metadata
    requestLogger, \* MCPServeMux.requestLogger: the default one or a configured one
    registered, \* history: the last tool handed to RegisterTool, by name
    mu,         \* MCPServeMux.mu: the writer that holds or waits for it, the readers
    pc,         \* ConcSpec: where each goroutine is in its call
    op,         \* ConcSpec: the call each goroutine is making
    decoded,    \* ConcSpec: ServeHTTP's local req
    found,      \* ConcSpec: handleCallTool's locals tool, exists
    listing,    \* ConcSpec: handleListTools' local tools
    resp,       \* ConcSpec: each goroutine's http.ResponseWriter
    events,     \* ConcSpec history: what each goroutine's call has done
    unknown,    \* DecSpec: the unknown bytes of the options, as the call got them
    target,     \* DecSpec: "method" in ToolFromMethod, "service" in ServiceFromService
    dpc,        \* DecSpec: the function whose loop is running
    raw,        \* DecSpec: the bytes that loop has left
    ext,        \* DecSpec: what findExtension returned
    parsed,     \* DecSpec: the local out of the sub-decoder
    ret,        \* DecSpec: what the call returned
    convert     \* ArgSpec: one call of DecodeArgs: its arguments and its result

seqVars == <<req, w, calls, logged>>
concVars == <<mu, pc, op, decoded, found, listing, resp, events>>
decVars == <<unknown, target, dpc, raw, ext, parsed, ret>>
convVars == <<convert>>
vars == <<tools, metadata, requestLogger, registered, seqVars, concVars, decVars, convVars>>

(***************************************************************************)
(* Bounds of the model.                                                    *)
(***************************************************************************)
MaxTools == 2      \* number of distinct tool names that get registered
MaxFields == 2     \* number of fields in the bytes DecSpec decodes
NumProcs == 2      \* number of goroutines of ConcSpec

Procs == 1..NumProcs

ToolNamePool == <<"greeter.say_hello", "tasks.delete", "echo", "tasks.list">>
Names == {ToolNamePool[i] : i \in 1..MaxTools}
MissingName == "missing"            \* a name that is never registered

(***************************************************************************)
(* JSON values of a decoded request.                                       *)
(***************************************************************************)
NilID == "<nil>"                    \* req.ID == nil: the request has no id
IDs == {"1"}

ArgKeys == {"name", "extra"}
NoArgs == [k \in ArgKeys |-> "absent"]
\* the objects a client sends as params.arguments
ArgMaps == {[name |-> "string", extra |-> "absent"],
            [name |-> "number", extra |-> "absent"]}

JAbsent == [t |-> "absent"]
JNumber == [t |-> "number", s |-> "7"]
JString(s) == [t |-> "string", s |-> s]
JObject(m) == [t |-> "object", m |-> m]

NoParams == [name |-> JAbsent, arguments |-> JAbsent]

\* struct MCPRequest, with the transport facts ServeHTTP reads before decoding
MCPRequest(httpMethod, parses, id, method, params) ==
    [httpMethod |-> httpMethod, parses |-> parses, ID |-> id,
     Method |-> method, Params |-> params]

Methods == {"initialize", "notifications/initialized", "tools/list",
            "tools/call", "resources/list"}

CallParams == [name : {JAbsent, JNumber} \cup {JString(n) : n \in Names \cup {MissingName}},
               arguments : {JAbsent, JString("x")} \cup {JObject(m) : m \in ArgMaps}]

Requests ==
    {MCPRequest("OPTIONS", FALSE, NilID, "", NoParams),
     MCPRequest("GET", FALSE, NilID, "", NoParams),
     MCPRequest("POST", FALSE, NilID, "", NoParams)}
    \cup {MCPRequest("POST", TRUE, id, m, NoParams) :
            id \in IDs \cup {NilID}, m \in Methods \ {"tools/call"}}
    \cup {MCPRequest("POST", TRUE, id, "tools/call", p) :
            id \in IDs \cup {NilID}, p \in CallParams}

\* no request: the step was not a ServeHTTP call
NoRequest == [httpMethod |-> "", parses |-> FALSE]

(***************************************************************************)
(* Tool handlers: struct ToolHandler and the functions bound as Handler.   *)
(***************************************************************************)
NilSchema == [type |-> "nil", properties |-> {}, additionalProperties |-> FALSE]
HelloSchema == [type |-> "object", properties |-> {"name"}, additionalProperties |-> FALSE]

DefaultInputSchema ==
    [type |-> "object", properties |-> {}, additionalProperties |-> TRUE]

\* What a function bound as ToolHandler.Handler does:
\*   "bridge"    DecodeArgs, the remote call (which succeeds), EncodeProto
\*   "remotefail" as "bridge", with a remote call that fails with "not found"
\*   "badreply"  as "bridge", with a reply EncodeProto cannot encode
\*   "rawvalue"  returns a value encoding/json cannot encode, and no error
ToolHandler(name, title, description, schema, ro, idem, destr, handler) ==
    [Name |-> name, Title |-> title, Description |-> description,
     InputSchema |-> schema, ReadOnly |-> ro, Idempotent |-> idem,
     Destructive |-> destr, Handler |-> handler]

\* the tool handlers that get registered under a name
ToolDefsOf(n) ==
    {ToolHandler(n, "", "plain", NilSchema, FALSE, FALSE, FALSE, "bridge"),
     ToolHandler(n, "Say hello", "Greets", HelloSchema, TRUE, FALSE, FALSE, "bridge"),
     ToolHandler(n, "", "", NilSchema, FALSE, TRUE, FALSE, "remotefail"),
     ToolHandler(n, "Delete", "Deletes", HelloSchema, FALSE, FALSE, TRUE, "badreply"),
     ToolHandler(n, "", "Greets", NilSchema, TRUE, TRUE, FALSE, "bridge"),
     ToolHandler(n, "T", "plain", NilSchema, TRUE, TRUE, TRUE, "rawvalue")}

ToolDefs == UNION {ToolDefsOf(n) : n \in Names}

\* a nil *ToolHandler, and the result of a map lookup that finds nothing
NilTool == [Name |-> ""]
NotFound == [exists |-> FALSE, tool |-> NilTool]

EmptyRegistry == [n \in {} |-> NilTool]

ServerMetadata == [Name |-> "greeter-mcp", Version |-> "v0.1.0"]

(***************************************************************************)
(* The value bridge (runtime/convert.go).  The request shape of the bound  *)
(* remote method has one string field, "name".                             *)
(***************************************************************************)
\* the Go value of `arguments` handed to Handler: nil, or a map
GoArgs(isNil, m) == [isNil |-> isNil, m |-> m]

ShapeFields == {"name"}

\* DecodeArgs(args, msg) for a msg that is not nil.  json.Marshal fails on
\* a value it cannot encode (a chan); protojson.Unmarshal with
\* DiscardUnknown: false: an unknown key or a value of the wrong kind is an
\* error
DecodeArgs(args) ==
    LET m == IF args.isNil THEN NoArgs ELSE args.m
        present == {k \in ArgKeys : m[k] # "absent"}
    IN  IF \E k \in present : m[k] = "chan"
        THEN [err |-> TRUE, text |-> "json: unsupported type: chan int", msg |-> ""]
        ELSE IF \E k \in present : k \notin ShapeFields \/ m[k] # "string"
        THEN [err |-> TRUE, text |-> "proto: syntax error", msg |-> ""]
        ELSE [err |-> FALSE, text |-> "",
              msg |-> IF "name" \in present THEN "Ada" ELSE ""]

\* a value handed back by a Handler: whether encoding/json can encode it, and
\* the mapping it holds (EncodeProto omits a field at its zero value)
GoValue(encodable, present, message) ==
    [encodable |-> encodable, present |-> present, message |-> message]

NilValue == GoValue(TRUE, FALSE, "")

EncodeProto(replyOK, message) ==
    IF replyOK
    THEN [err |-> FALSE, text |-> "",
          out |-> GoValue(TRUE, message # "", message)]
    ELSE [err |-> TRUE, text |-> "proto: invalid UTF-8", out |-> NilValue]

\* tool.Handler(ctx, arguments): (output, err); cause names the step of the
\* bound function that failed
Invoke(tool, args) ==
    IF tool.Handler = "rawvalue"
    THEN [err |-> FALSE, text |-> "", out |-> GoValue(FALSE, TRUE, ""),
          cause |-> "none"]
    ELSE LET d == DecodeArgs(args)
         IN  IF d.err
             THEN [err |-> TRUE, text |-> d.text, out |-> NilValue, cause |-> "decode"]
             ELSE IF tool.Handler = "remotefail"
             THEN [err |-> TRUE, text |-> "not found", out |-> NilValue,
                   cause |-> "remote"]
             ELSE LET e == EncodeProto(tool.Handler # "badreply",
                                       IF d.msg = "" THEN "" ELSE "Hello, " \o d.msg)
                  IN  [err |-> e.err, text |-> e.text, out |-> e.out,
                       cause |-> IF e.err THEN "encode" ELSE "none"]

\* fmt.Sprintf("%v", output)
Sprintf(out) ==
    IF ~out.encodable THEN "0xc000010000"
    ELSE IF out.present THEN "map[message:" \o out.message \o "]"
    ELSE "map[]"

(***************************************************************************)
(* The response: what ServeHTTP leaves in the http.ResponseWriter.         *)
(***************************************************************************)
StatusOK == 200
StatusNoContent == 204
StatusBadRequest == 400
StatusInternalServerError == 500

NoBody == [kind |-> "none"]

ResponseWriter(status, contentType, body) ==
    [status |-> status, contentType |-> contentType, body |-> body]

NoResponse == ResponseWriter(0, "", NoBody)

\* w.WriteHeader(status) with nothing written after it
WriteHeader(status) == ResponseWriter(status, "", NoBody)

\* http.Error(w, text, status)
HttpError(text, status) ==
    ResponseWriter(status, "text/plain", [kind |-> "text", text |-> text])

\* struct MCPResponse as encoding/json writes it: result and error carry
\* omitempty, so only one of them is in the body; an id of NilID is omitted
MCPResultResponse(id, result) ==
    [kind |-> "json", jsonrpc |-> "2.0", id |-> id, result |-> result]

MCPErrorResponse(id, code, message) ==
    [kind |-> "json", jsonrpc |-> "2.0", id |-> id,
     error |-> [code |-> code, message |-> message]]

\* whether json.NewEncoder(w).Encode can encode a result
JSONEncodable(result) ==
    "structuredContent" \in DOMAIN result => result.structuredContent.encodable

sendSuccess(id, result) ==
    IF JSONEncodable(result)
    THEN ResponseWriter(StatusOK, "application/json", MCPResultResponse(id, result))
    ELSE HttpError("Failed to encode response", StatusInternalServerError)

ErrorStatus(code) ==
    IF code = -32600 \/ code = -32601 THEN StatusBadRequest
    ELSE IF code = -32700 THEN StatusBadRequest
    ELSE StatusOK

sendError(id, code, message) ==
    ResponseWriter(ErrorStatus(code), "application/json",
                   MCPErrorResponse(id, code, message))

(***************************************************************************)
(* The method handlers.  Each gives the response and the Handler           *)
(* invocations of one dispatch.                                            *)
(***************************************************************************)
Outcome(rw, invoked) == [w |-> rw, calls |-> invoked]

\* faulty variant of handleInitialize: the capabilities declare nothing
handleInitialize_NoCapabilities(md, id) ==
    Outcome(sendSuccess(id,
                [protocolVersion |-> "2025-11-25",
                 serverInfo |-> [name |-> md.Name, version |-> md.Version],
                 capabilities |-> [k \in {} |-> TRUE]]),
            <<>>)

\* handleInitialize: the result is built from constants and mux.metadata
handleInitialize(md, id) ==
    Outcome(sendSuccess(id,
                [protocolVersion |-> "2025-11-25",
                 serverInfo |-> [name |-> md.Name, version |-> md.Version],
                 capabilities |-> [tools |-> [k \in {} |-> TRUE]]]),
            <<>>)

\* faulty variant of Annotations: every flag is written, true or false
Annotations_AllFlags(tool) ==
    [readOnlyHint |-> tool.ReadOnly,
     idempotentHint |-> tool.Idempotent,
     destructiveHint |-> tool.Destructive]

\* the annotations map of one tools/list entry
Annotations(tool) ==
    LET flag == [readOnlyHint |-> tool.ReadOnly,
                 idempotentHint |-> tool.Idempotent,
                 destructiveHint |-> tool.Destructive]
    IN  [k \in {h \in DOMAIN flag : flag[h]} |-> TRUE]

\* the map t built for one tool in handleListTools
ListEntry(tool) ==
    [name |-> tool.Name, description |-> tool.Description,
     inputSchema |-> IF tool.InputSchema # NilSchema THEN tool.InputSchema
                     ELSE DefaultInputSchema]
    @@ (IF tool.Title # "" THEN [title |-> tool.Title] ELSE [k \in {} |-> ""])
    @@ (IF DOMAIN Annotations(tool) # {}
        THEN [annotations |-> Annotations(tool)] ELSE [k \in {} |-> ""])

\* the orders in which `for _, tool := range mux.tools` can visit the map
RangeOrders(m) ==
    {o \in [1..Cardinality(DOMAIN m) -> DOMAIN m] :
        \A i, j \in DOMAIN o : i # j => o[i] # o[j]}

handleListTools(reg, order, id) ==
    Outcome(sendSuccess(id, [tools |-> [i \in DOMAIN order |-> ListEntry(reg[order[i]])]]),
            <<>>)

\* faulty variant of ToolName: any value that is present is taken as a name
ToolName_AnyValue(params) ==
    [ok |-> params.name.t # "absent",
     s |-> IF params.name.t # "absent" THEN params.name.s ELSE ""]

\* toolName, ok := params["name"].(string)
ToolName(params) ==
    [ok |-> params.name.t = "string",
     s |-> IF params.name.t = "string" THEN params.name.s ELSE ""]

\* arguments, _ := params["arguments"].(map[string]interface{})
Arguments(params) ==
    IF params.arguments.t = "object"
    THEN GoArgs(FALSE, params.arguments.m)
    ELSE GoArgs(TRUE, NoArgs)

\* tool, exists := mux.tools[toolName]
Lookup(reg, toolName) ==
    IF toolName \in DOMAIN reg THEN [exists |-> TRUE, tool |-> reg[toolName]]
    ELSE NotFound

\* faulty variant of ToolNotFound: the message does not name the tool
ToolNotFound_NoName(toolName) == "Tool not found"

\* fmt.Sprintf("Tool not found: %s", toolName)
ToolNotFound(toolName) == "Tool not found: " \o toolName

\* one invocation of tool.Handler, as recorded in calls
Invocation(tool, arguments, r) ==
    [tool |-> tool, args |-> arguments, err |-> r.err, text |-> r.text,
     cause |-> r.cause]

\* faulty variant of CallToolResponse: a handler failure is reported as a
\* generic internal error
CallToolResponse_Generic(id, r) ==
    IF r.err
    THEN sendError(id, -32603, "Internal error")
    ELSE sendSuccess(id, [content |-> <<[type |-> "text", text |-> Sprintf(r.out)]>>,
                          structuredContent |-> r.out])

\* the response to what tool.Handler returned
CallToolResponse(id, r) ==
    IF r.err
    THEN sendError(id, -32000, r.text)
    ELSE sendSuccess(id, [content |-> <<[type |-> "text", text |-> Sprintf(r.out)]>>,
                          structuredContent |-> r.out])

handleCallTool(reg, id, params) ==
    IF ~ToolName(params).ok
    THEN Outcome(sendError(id, -32602, "Missing tool name"), <<>>)
    ELSE LET toolName == ToolName(params).s
             arguments == Arguments(params)
             hit == Lookup(reg, toolName)
         IN  IF ~hit.exists
             THEN Outcome(sendError(id, -32601, ToolNotFound(toolName)), <<>>)
             ELSE LET r == Invoke(hit.tool, arguments)
                  IN  Outcome(CallToolResponse(id, r),
                              <<Invocation(hit.tool, arguments, r)>>)

(***************************************************************************)
(* The operations of MCPServeMux.                                          *)
(***************************************************************************)
\* the call a goroutine of ConcSpec is making: RegisterTool(tool) or
\* ServeHTTP with request r
RegisterOp(tool) == [kind |-> "register", tool |-> tool]
ServeOp(r) == [kind |-> "serve", r |-> r]
NoOp == [kind |-> "none"]

\* NewMCPServeMux(metadata): an empty registry, the no-op request logger
Init ==
    /\ tools = EmptyRegistry
    /\ metadata = ServerMetadata
    /\ requestLogger = "default"
    /\ req = NoRequest
    /\ w = NoResponse
    /\ calls = <<>>
    /\ logged = <<>>
    /\ registered = EmptyRegistry
    /\ mu = [w |-> 0, r |-> {}]
    /\ pc = [p \in Procs |-> "idle"]
    /\ op = [p \in Procs |-> NoOp]
    /\ decoded = [p \in Procs |-> NoRequest]
    /\ found = [p \in Procs |-> NotFound]
    /\ listing = [p \in Procs |-> <<>>]
    /\ resp = [p \in Procs |-> NoResponse]
    /\ events = [p \in Procs |-> <<>>]
    /\ unknown = <<>>
    /\ target = "none"
    /\ dpc = "idle"
    /\ raw = <<>>
    /\ ext = [nil |-> TRUE, b |-> <<>>]
    /\ parsed = <<>>
    /\ ret = [found |-> FALSE]
    /\ convert = [pc |-> "idle"]

\* faulty variant of RegisterTool: an existing entry is kept
RegisterTool_FirstWins(tool) ==
    /\ tools' = tools @@ (tool.Name :> tool)
    /\ req' = NoRequest
    /\ w' = NoResponse
    /\ calls' = <<>>
    /\ logged' = <<>>
    /\ UNCHANGED <<metadata, requestLogger, concVars, decVars, convVars>>

\* mux.tools[tool.Name] = tool, under mux.mu.Lock().  The call has no request
\* and no response writer: req, w, calls and logged describe a step only
\* when the step is a ServeHTTP call.
RegisterTool(tool) ==
    /\ tools' = (tool.Name :> tool) @@ tools
    /\ req' = NoRequest
    /\ w' = NoResponse
    /\ calls' = <<>>
    /\ logged' = <<>>
    /\ UNCHANGED <<metadata, requestLogger, concVars, decVars, convVars>>

\* faulty variant of Dispatch: notifications/initialized has no case of its
\* own, so with an id it is answered "Method not found"
Dispatch_NotifiedByID(reg, md, order, r) ==
    CASE r.Method = "initialize" -> handleInitialize(md, r.ID)
      [] r.Method = "tools/list" -> handleListTools(reg, order, r.ID)
      [] r.Method = "tools/call" -> handleCallTool(reg, r.ID, r.Params)
      [] OTHER ->
            IF r.ID # NilID
            THEN Outcome(sendError(r.ID, -32601, "Method not found: " \o r.Method), <<>>)
            ELSE Outcome(WriteHeader(StatusNoContent), <<>>)

\* faulty variant of Dispatch: a method that is not recognized is never
\* answered
Dispatch_SilentDefault(reg, md, order, r) ==
    CASE r.Method = "initialize" -> handleInitialize(md, r.ID)
      [] r.Method = "notifications/initialized" ->
            Outcome(WriteHeader(StatusNoContent), <<>>)
      [] r.Method = "tools/list" -> handleListTools(reg, order, r.ID)
      [] r.Method = "tools/call" -> handleCallTool(reg, r.ID, r.Params)
      [] OTHER -> Outcome(WriteHeader(StatusNoContent), <<>>)

\* the switch on req.Method
Dispatch(reg, md, order, r) ==
    CASE r.Method = "initialize" -> handleInitialize(md, r.ID)
      [] r.Method = "notifications/initialized" ->
            Outcome(WriteHeader(StatusNoContent), <<>>)
      [] r.Method = "tools/list" -> handleListTools(reg, order, r.ID)
      [] r.Method = "tools/call" -> handleCallTool(reg, r.ID, r.Params)
      [] OTHER ->
            IF r.ID # NilID
            THEN Outcome(sendError(r.ID, -32601, "Method not found: " \o r.Method), <<>>)
            ELSE Outcome(WriteHeader(StatusNoContent), <<>>)

\* one whole call of ServeHTTP; order is the map iteration order of this call
Serve(reg, md, order, r) ==
    IF r.httpMethod = "OPTIONS"
    THEN [out |-> Outcome(WriteHeader(StatusNoContent), <<>>), logged |-> <<>>]
    ELSE IF r.httpMethod # "POST"
    THEN [out |-> Outcome(sendError(NilID, -32600, "Invalid request method"), <<>>),
          logged |-> <<>>]
    ELSE IF ~r.parses
    THEN [out |-> Outcome(sendError(NilID, -32700, "Parse error: " \o "unexpected EOF"), <<>>),
          logged |-> <<>>]
    ELSE [out |-> Dispatch(reg, md, order, r), logged |-> <<r>>]

\* faulty variant of ServeHTTP: a tool whose Handler was called and failed
\* is taken out of the registry
ServeHTTP_EvictsFailing(r) ==
    /\ req' = r
    /\ \E order \in IF r.Method = "tools/list" THEN RangeOrders(tools) ELSE {<<>>} :
          LET s == Serve(tools, metadata, order, r)
              failed == IF s.out.calls # <<>> /\ "error" \in DOMAIN s.out.w.body
                        THEN {ToolName(r.Params).s} ELSE {}
          IN  /\ w' = s.out.w
              /\ calls' = s.out.calls
              /\ logged' = s.logged
              /\ tools' = [n \in DOMAIN tools \ failed |-> tools[n]]
    /\ UNCHANGED <<metadata, requestLogger, concVars, decVars, convVars>>

\* (only tools/list ranges over the map)
ServeHTTP(r) ==
    /\ req' = r
    /\ \E order \in IF r.Method = "tools/list" THEN RangeOrders(tools) ELSE {<<>>} :
          LET s == Serve(tools, metadata, order, r)
          IN  /\ w' = s.out.w
              /\ calls' = s.out.calls
              /\ logged' = s.logged
    /\ UNCHANGED <<tools, metadata, requestLogger, concVars, decVars, convVars>>

\* registered is a history variable: the argument of the most recent
\* RegisterTool call for each name
Next ==
    \/ \E tool \in ToolDefs :
          RegisterTool(tool) /\ registered' = (tool.Name :> tool) @@ registered
    \/ \E r \in Requests : ServeHTTP(r) /\ UNCHANGED registered

Spec == Init /\ [][Next]_vars

(***************************************************************************)
(* ConcSpec: the same calls made concurrently by NumProcs goroutines.      *)
(* mux.mu is a sync.RWMutex: mu.w is the goroutine inside Lock() or        *)
(* holding the write lock (a writer that waits for the readers to leave    *)
(* already keeps new readers out), mu.r the goroutines holding a read lock.*)
(* HookSpec is ConcSpec for a mux built with WithRequestLogger(hook).      *)
(***************************************************************************)
\* the tools the goroutines register, and the requests they send
ConcDefs ==
    {ToolHandler(ToolNamePool[1], "", "plain", NilSchema, FALSE, FALSE, FALSE, "bridge"),
     ToolHandler(ToolNamePool[1], "Say hello", "Greets", HelloSchema, TRUE, FALSE, FALSE,
                 "remotefail")}

ConcRequests ==
    {MCPRequest("POST", FALSE, NilID, "", NoParams),
     MCPRequest("POST", TRUE, "1", "initialize", NoParams),
     MCPRequest("POST", TRUE, NilID, "notifications/initialized", NoParams),
     MCPRequest("POST", TRUE, "1", "resources/list", NoParams),
     MCPRequest("POST", TRUE, "1", "tools/list", NoParams),
     MCPRequest("POST", TRUE, "1", "tools/call",
                [name |-> JNumber, arguments |-> JAbsent]),
     MCPRequest("POST", TRUE, "1", "tools/call",
                [name |-> JString(ToolNamePool[1]), arguments |-> JAbsent])}

\* what a goroutine's call has done so far (history)
LoggerEvent(r) == [e |-> "requestLogger", req |-> r]
RLockEvent == [e |-> "RLock"]
HandlerEvent(tool, arguments) == [e |-> "Handler", tool |-> tool.Name, args |-> arguments]

Record(p, event) == events' = [events EXCEPT ![p] = Append(@, event)]

\* the variables no step of a goroutine changes
fixedVars == <<metadata, requestLogger, seqVars, decVars, convVars>>

\* mux.mu.Lock() can take the writers' mutex: no other writer has it
CanLock(m) == m.w = 0

\* faulty variant of LockReturns: the writer does not wait for the readers
LockReturns_IgnoresReaders(m, p) == m.w = p

\* mux.mu.Lock() returns: the readers have left
LockReturns(m, p) == m.w = p /\ m.r = {}

\* faulty variant of CanRLock: a reader enters while a writer holds the lock
CanRLock_IgnoresWriter(m) == TRUE

\* faulty variant of CanRLock: the lock admits one reader at a time
CanRLock_OneReader(m) == m.w = 0 /\ m.r = {}

\* mux.mu.RLock() returns: no writer holds or waits for the lock
CanRLock(m) == m.w = 0

Goto(p, label) == pc' = [pc EXCEPT ![p] = label]

\* a goroutine calls RegisterTool(tool)
CallRegisterTool(p, tool) ==
    /\ pc[p] = "idle"
    /\ op' = [op EXCEPT ![p] = RegisterOp(tool)]
    /\ Goto(p, "reg_lock")
    /\ UNCHANGED <<fixedVars, tools, registered, mu, decoded, found, listing, resp, events>>

\* mux.mu.Lock(), first half: the writer announces itself
Lock(p) ==
    /\ pc[p] = "reg_lock"
    /\ CanLock(mu)
    /\ mu' = [mu EXCEPT !.w = p]
    /\ Goto(p, "reg_wait")
    /\ UNCHANGED <<fixedVars, tools, registered, op, decoded, found, listing, resp, events>>

\* mux.mu.Lock(), second half: it returns once the readers have left
LockAcquired(p) ==
    /\ pc[p] = "reg_wait"
    /\ LockReturns(mu, p)
    /\ Goto(p, "reg_write")
    /\ UNCHANGED <<fixedVars, tools, registered, mu, op, decoded, found, listing, resp, events>>

\* mux.tools[tool.Name] = tool
WriteTool(p) ==
    /\ pc[p] = "reg_write"
    /\ tools' = (op[p].tool.Name :> op[p].tool) @@ tools
    /\ registered' = (op[p].tool.Name :> op[p].tool) @@ registered
    /\ Goto(p, "reg_unlock")
    /\ UNCHANGED <<fixedVars, mu, op, decoded, found, listing, resp, events>>

\* the deferred mux.mu.Unlock(); RegisterTool returns
Unlock(p) ==
    /\ pc[p] = "reg_unlock"
    /\ mu' = [mu EXCEPT !.w = 0]
    /\ op' = [op EXCEPT ![p] = NoOp]
    /\ Goto(p, "idle")
    /\ UNCHANGED <<fixedVars, tools, registered, decoded, found, listing, resp, events>>

\* a goroutine enters ServeHTTP with request r
CallServeHTTP(p, r) ==
    /\ pc[p] = "idle"
    /\ op' = [op EXCEPT ![p] = ServeOp(r)]
    /\ Goto(p, "decode")
    /\ UNCHANGED <<fixedVars, tools, registered, mu, decoded, found, listing, resp, events>>

\* faulty variant of Decode: a request without an id is not handed to
\* mux.requestLogger
Decode_NotificationsUnlogged(p) ==
    /\ pc[p] = "decode"
    /\ LET r == op[p].r
       IN  IF r.httpMethod = "POST" /\ r.parses
           THEN /\ decoded' = [decoded EXCEPT ![p] = r]
                /\ IF r.ID # NilID
                   THEN Record(p, LoggerEvent(r)) /\ Goto(p, "logger")
                   ELSE Goto(p, "dispatch") /\ UNCHANGED events
                /\ UNCHANGED resp
           ELSE /\ resp' = [resp EXCEPT ![p] = Serve(EmptyRegistry, metadata, <<>>, r).out.w]
                /\ Goto(p, "done")
                /\ UNCHANGED <<decoded, events>>
    /\ UNCHANGED <<fixedVars, tools, registered, mu, op, found, listing>>

\* ServeHTTP up to the call mux.requestLogger(ctx, &req): a request that is
\* not a POST or does not decode is answered here
Decode(p) ==
    /\ pc[p] = "decode"
    /\ LET r == op[p].r
       IN  IF r.httpMethod = "POST" /\ r.parses
           THEN /\ decoded' = [decoded EXCEPT ![p] = r]
                /\ Record(p, LoggerEvent(r))
                /\ Goto(p, "logger")
                /\ UNCHANGED resp
           ELSE /\ resp' = [resp EXCEPT ![p] = Serve(EmptyRegistry, metadata, <<>>, r).out.w]
                /\ Goto(p, "done")
                /\ UNCHANGED <<decoded, events>>
    /\ UNCHANGED <<fixedVars, tools, registered, mu, op, found, listing>>

\* what req can hold when mux.requestLogger(ctx, &req) returns: the default
\* logger has an empty body; a configured one is handed the address of req
\* and may have written through it
LoggerEffects(logger, r) ==
    IF logger = "default" THEN {r}
    ELSE {r, [r EXCEPT !.Method = "initialize"]}

\* mux.requestLogger(ctx, &req) returns
LoggerReturns(p) ==
    /\ pc[p] = "logger"
    /\ \E r \in LoggerEffects(requestLogger, decoded[p]) :
          decoded' = [decoded EXCEPT ![p] = r]
    /\ Goto(p, "dispatch")
    /\ UNCHANGED <<fixedVars, tools, registered, mu, op, found, listing, resp, events>>

\* the switch on req.Method up to the first use of the registry: the
\* requests that never use it are answered here
DispatchStep(p) ==
    /\ pc[p] = "dispatch"
    /\ LET r == decoded[p]
       IN  IF r.Method = "tools/list"
           THEN Goto(p, "list_rlock") /\ UNCHANGED resp
           ELSE IF r.Method = "tools/call" /\ ToolName(r.Params).ok
           THEN Goto(p, "call_rlock") /\ UNCHANGED resp
           ELSE /\ resp' = [resp EXCEPT ![p] = Dispatch(EmptyRegistry, metadata, <<>>, r).w]
                /\ Goto(p, "done")
    /\ UNCHANGED <<fixedVars, tools, registered, mu, op, decoded, found, listing, events>>

\* handleListTools: mux.mu.RLock()
ListRLock(p) ==
    /\ pc[p] = "list_rlock"
    /\ CanRLock(mu)
    /\ mu' = [mu EXCEPT !.r = @ \cup {p}]
    /\ Record(p, RLockEvent)
    /\ Goto(p, "list_copy")
    /\ UNCHANGED <<fixedVars, tools, registered, op, decoded, found, listing, resp>>

\* handleListTools: the loop over mux.tools
ListCopy(p) ==
    /\ pc[p] = "list_copy"
    /\ \E order \in RangeOrders(tools) :
          listing' = [listing EXCEPT ![p] = [i \in DOMAIN order |-> ListEntry(tools[order[i]])]]
    /\ Goto(p, "list_send")
    /\ UNCHANGED <<fixedVars, tools, registered, mu, op, decoded, found, resp, events>>

\* handleListTools: sendSuccess(w, id, result)
ListSend(p) ==
    /\ pc[p] = "list_send"
    /\ resp' = [resp EXCEPT ![p] = sendSuccess(decoded[p].ID, [tools |-> listing[p]])]
    /\ Goto(p, "list_runlock")
    /\ UNCHANGED <<fixedVars, tools, registered, mu, op, decoded, found, listing, events>>

\* handleListTools: the deferred mux.mu.RUnlock()
ListRUnlock(p) ==
    /\ pc[p] = "list_runlock"
    /\ mu' = [mu EXCEPT !.r = @ \ {p}]
    /\ Goto(p, "done")
    /\ UNCHANGED <<fixedVars, tools, registered, op, decoded, found, listing, resp, events>>

\* handleCallTool: mux.mu.RLock()
CallRLock(p) ==
    /\ pc[p] = "call_rlock"
    /\ CanRLock(mu)
    /\ mu' = [mu EXCEPT !.r = @ \cup {p}]
    /\ Record(p, RLockEvent)
    /\ Goto(p, "call_lookup")
    /\ UNCHANGED <<fixedVars, tools, registered, op, decoded, found, listing, resp>>

\* handleCallTool: tool, exists := mux.tools[toolName]
CallLookup(p) ==
    /\ pc[p] = "call_lookup"
    /\ found' = [found EXCEPT ![p] = Lookup(tools, ToolName(decoded[p].Params).s)]
    /\ Goto(p, "call_runlock")
    /\ UNCHANGED <<fixedVars, tools, registered, mu, op, decoded, listing, resp, events>>

\* faulty variant of CallRUnlock: the read lock is kept while tool.Handler
\* runs
CallRUnlock_KeepsLock(p) ==
    /\ pc[p] = "call_runlock"
    /\ IF ~found[p].exists
       THEN /\ mu' = [mu EXCEPT !.r = @ \ {p}]
            /\ resp' = [resp EXCEPT ![p] =
                          sendError(decoded[p].ID, -32601,
                                    ToolNotFound(ToolName(decoded[p].Params).s))]
            /\ Goto(p, "done")
            /\ UNCHANGED events
       ELSE /\ Record(p, HandlerEvent(found[p].tool, Arguments(decoded[p].Params)))
            /\ Goto(p, "call_running")
            /\ UNCHANGED <<mu, resp>>
    /\ UNCHANGED <<fixedVars, tools, registered, op, decoded, found, listing>>

\* handleCallTool: mux.mu.RUnlock(), then the error response when the tool
\* does not exist, the call of tool.Handler when it does
CallRUnlock(p) ==
    /\ pc[p] = "call_runlock"
    /\ mu' = [mu EXCEPT !.r = @ \ {p}]
    /\ IF ~found[p].exists
       THEN /\ resp' = [resp EXCEPT ![p] =
                          sendError(decoded[p].ID, -32601,
                                    ToolNotFound(ToolName(decoded[p].Params).s))]
            /\ Goto(p, "done")
            /\ UNCHANGED events
       ELSE /\ Record(p, HandlerEvent(found[p].tool, Arguments(decoded[p].Params)))
            /\ Goto(p, "call_running")
            /\ UNCHANGED resp
    /\ UNCHANGED <<fixedVars, tools, registered, op, decoded, found, listing>>

\* what tool.Handler returns when the caller's context ends the call
Cancelled == [err |-> TRUE, text |-> "context canceled", out |-> NilValue,
              cause |-> "remote"]

\* the returns of tool.Handler(ctx, arguments): its own result, or the
\* context's error when r.Context() is cancelled while it runs
HandlerResults(tool, arguments) == {Invoke(tool, arguments), Cancelled}

\* faulty variant of HandlerReturns: a failed call is made once more
HandlerReturns_Retry(p) ==
    /\ pc[p] = "call_running"
    /\ \E r \in HandlerResults(found[p].tool, Arguments(decoded[p].Params)) :
          IF r.err /\ Len(events[p]) < 4
          THEN /\ Record(p, HandlerEvent(found[p].tool, Arguments(decoded[p].Params)))
               /\ UNCHANGED <<pc, resp>>
          ELSE /\ resp' = [resp EXCEPT ![p] = CallToolResponse(decoded[p].ID, r)]
               /\ Goto(p, "done")
               /\ UNCHANGED events
    /\ UNCHANGED <<fixedVars, tools, registered, mu, op, decoded, found, listing>>

\* handleCallTool: tool.Handler returns, and the response is written
HandlerReturns(p) ==
    /\ pc[p] = "call_running"
    /\ \E r \in HandlerResults(found[p].tool, Arguments(decoded[p].Params)) :
          resp' = [resp EXCEPT ![p] = CallToolResponse(decoded[p].ID, r)]
    /\ Goto(p, "done")
    /\ UNCHANGED <<fixedVars, tools, registered, mu, op, decoded, found, listing, events>>

\* ServeHTTP returns
Return(p) ==
    /\ pc[p] = "done"
    /\ op' = [op EXCEPT ![p] = NoOp]
    /\ decoded' = [decoded EXCEPT ![p] = NoRequest]
    /\ found' = [found EXCEPT ![p] = NotFound]
    /\ listing' = [listing EXCEPT ![p] = <<>>]
    /\ resp' = [resp EXCEPT ![p] = NoResponse]
    /\ events' = [events EXCEPT ![p] = <<>>]
    /\ Goto(p, "idle")
    /\ UNCHANGED <<fixedVars, tools, registered, mu>>

ConcNext ==
    \E p \in Procs :
        \/ \E tool \in ConcDefs : CallRegisterTool(p, tool)
        \/ Lock(p)
        \/ LockAcquired(p)
        \/ WriteTool(p)
        \/ Unlock(p)
        \/ \E r \in ConcRequests : CallServeHTTP(p, r)
        \/ Decode(p)
        \/ LoggerReturns(p)
        \/ DispatchStep(p)
        \/ ListRLock(p)
        \/ ListCopy(p)
        \/ ListSend(p)
        \/ ListRUnlock(p)
        \/ CallRLock(p)
        \/ CallLookup(p)
        \/ CallRUnlock(p)
        \/ HandlerReturns(p)
        \/ Return(p)

ConcSpec == Init /\ [][ConcNext]_vars

\* NewMCPServeMux(metadata, WithRequestLogger(hook)) with a hook that is not nil
HookInit ==
    /\ tools = EmptyRegistry
    /\ metadata = ServerMetadata
    /\ requestLogger = "configured"
    /\ req = NoRequest
    /\ w = NoResponse
    /\ calls = <<>>
    /\ logged = <<>>
    /\ registered = EmptyRegistry
    /\ mu = [w |-> 0, r |-> {}]
    /\ pc = [p \in Procs |-> "idle"]
    /\ op = [p \in Procs |-> NoOp]
    /\ decoded = [p \in Procs |-> NoRequest]
    /\ found = [p \in Procs |-> NotFound]
    /\ listing = [p \in Procs |-> <<>>]
    /\ resp = [p \in Procs |-> NoResponse]
    /\ events = [p \in Procs |-> <<>>]
    /\ unknown = <<>>
    /\ target = "none"
    /\ dpc = "idle"
    /\ raw = <<>>
    /\ ext = [nil |-> TRUE, b |-> <<>>]
    /\ parsed = <<>>
    /\ ret = [found |-> FALSE]
    /\ convert = [pc |-> "idle"]

HookSpec == HookInit /\ [][ConcNext]_vars

\* the steps of a call that are the mux's own or the default logger's: the
\* Go scheduler runs a goroutine that can run; nothing makes a configured
\* logger return
Proceed(p) ==
    \/ Lock(p) \/ LockAcquired(p) \/ WriteTool(p) \/ Unlock(p)
    \/ Decode(p)
    \/ (requestLogger = "default" /\ LoggerReturns(p))
    \/ DispatchStep(p)
    \/ ListRLock(p) \/ ListCopy(p) \/ ListSend(p) \/ ListRUnlock(p)
    \/ CallRLock(p) \/ CallLookup(p) \/ CallRUnlock(p)
    \/ Return(p)

HookLiveSpec == HookSpec /\ \A p \in Procs : WF_vars(Proceed(p))

(***************************************************************************)
(* DecSpec: the option decoder of internal/annotations/parse.go.  A call   *)
(* of ToolFromMethod or ServiceFromService walks the unknown bytes of the  *)
(* options; each step is one pass of the loop of the function that is      *)
(* running.  Bytes are the integers 0..255, a []byte is a sequence of them.*)
(***************************************************************************)
methodOptionFieldNumber == 51234
serviceOptionFieldNumber == 51235

\* protowire.Type
VarintType == 0
Fixed64Type == 1
BytesType == 2
StartGroupType == 3
Fixed32Type == 5

\* b[n:]
Drop(b, n) == SubSeq(b, n + 1, Len(b))

\* protowire.ConsumeVarint: the 64-bit value and the number of bytes read; n
\* is -1 when the bytes end inside the varint, -3 when it overflows 64 bits.
\* The value is v + hi * 2^28: v is its low 28 bits (bytes 1 to 4), hi the
\* bits above, kept up to 64 (a tag with hi >= 64 has a field number above
\* MaxInt32, a length with hi > 0 is longer than any buffer here).
RECURSIVE VarintAt(_, _, _, _, _)
VarintAt(b, i, lo, hi, mult) ==
    IF i > Len(b) THEN [v |-> 0, hi |-> 0, n |-> -1]
    ELSE IF i = 10 /\ b[i] > 1 THEN [v |-> 0, hi |-> 0, n |-> -3]
    ELSE LET d == b[i] % 128
             lo2 == IF i <= 4 THEN lo + d * mult ELSE lo
             hi2 == IF i <= 4 THEN 0
                    ELSE IF i = 5 THEN (IF d > 64 THEN 64 ELSE d)
                    ELSE IF d > 0 THEN 64 ELSE hi
         IN  IF b[i] < 128 THEN [v |-> lo2, hi |-> hi2, n |-> i]
             ELSE VarintAt(b, i + 1, lo2, hi2, IF i < 4 THEN mult * 128 ELSE mult)

ConsumeVarint(b) == VarintAt(b, 1, 0, 0, 1)

\* protowire.ConsumeTag: n is -2 when the field number is not valid (0, or
\* above MaxInt32)
ConsumeTag(b) ==
    LET x == ConsumeVarint(b)
        num == x.v \div 8 + x.hi * 33554432
    IN  IF x.n < 0 THEN [num |-> 0, typ |-> 0, n |-> x.n]
        ELSE IF x.hi >= 64 \/ num < 1 THEN [num |-> 0, typ |-> 0, n |-> -2]
        ELSE [num |-> num, typ |-> x.v % 8, n |-> x.n]

\* protowire.ConsumeFixed32, protowire.ConsumeFixed64 (the number of bytes read)
ConsumeFixed32(b) == IF Len(b) < 4 THEN -1 ELSE 4
ConsumeFixed64(b) == IF Len(b) < 8 THEN -1 ELSE 8

\* protowire.ConsumeBytes: the run (never nil) and the number of bytes read
ConsumeBytes(b) ==
    LET x == ConsumeVarint(b)
    IN  IF x.n < 0 THEN [b |-> <<>>, n |-> x.n]
        ELSE IF x.hi > 0 \/ x.v > Len(b) - x.n THEN [b |-> <<>>, n |-> -1]
        ELSE [b |-> SubSeq(b, x.n + 1, x.n + x.v), n |-> x.n + x.v]

\* faulty variant of consumeField: only a varint is skipped
consumeField_VarintOnly(typ, b) ==
    CASE typ = VarintType -> ConsumeVarint(b).n
      [] OTHER -> -1

\* consumeField: the number of bytes to skip; the error is not nil exactly
\* when it is negative
consumeField(typ, b) ==
    CASE typ = VarintType -> ConsumeVarint(b).n
      [] typ = Fixed32Type -> ConsumeFixed32(b)
      [] typ = Fixed64Type -> ConsumeFixed64(b)
      [] typ = BytesType -> ConsumeBytes(b).n
      [] OTHER -> -1

\* struct ToolOptions, struct ServiceOptions; string(b) keeps the bytes of b
ToolOptions(name, title, description, ro, idem, destr) ==
    [Name |-> name, Title |-> title, Description |-> description,
     ReadOnly |-> ro, Idempotent |-> idem, Destructive |-> destr]

ServiceOptions(name, version) == [Name |-> name, Version |-> version]

ZeroToolOptions == ToolOptions(<<>>, <<>>, <<>>, FALSE, FALSE, FALSE)
ZeroServiceOptions == ServiceOptions(<<>>, <<>>)
ZeroOptions(t) == IF t = "method" THEN ZeroToolOptions ELSE ZeroServiceOptions
FieldNumber(t) ==
    IF t = "method" THEN methodOptionFieldNumber ELSE serviceOptionFieldNumber

\* what one pass of a loop does: it returns from the function, goes round
\* again with the remaining bytes, or (parseMethodOptions) breaks
ReturnNil == [k |-> "nil"]
ReturnBytes(b) == [k |-> "bytes", b |-> b]
ReturnFail == [k |-> "fail"]
ReturnOptions(o) == [k |-> "options", out |-> o]
Continue(rest, o) == [k |-> "continue", raw |-> rest, out |-> o]

\* faulty variant of findExtensionPass: a length-delimited field of any
\* number is taken for the extension
findExtensionPass_AnyNumber(b, fieldNumber) ==
    LET t == ConsumeTag(b)
        rest == Drop(b, t.n)
    IN  IF t.n < 0 THEN ReturnNil
        ELSE CASE t.typ = VarintType ->
                    LET m == ConsumeVarint(rest).n
                    IN  IF m < 0 THEN ReturnNil ELSE Continue(Drop(rest, m), <<>>)
               [] t.typ = Fixed32Type ->
                    LET m == ConsumeFixed32(rest)
                    IN  IF m < 0 THEN ReturnNil ELSE Continue(Drop(rest, m), <<>>)
               [] t.typ = Fixed64Type ->
                    LET m == ConsumeFixed64(rest)
                    IN  IF m < 0 THEN ReturnNil ELSE Continue(Drop(rest, m), <<>>)
               [] t.typ = BytesType ->
                    LET c == ConsumeBytes(rest)
                    IN  IF c.n < 0 THEN ReturnNil ELSE ReturnBytes(c.b)
               [] OTHER -> ReturnNil

\* faulty variant of findExtensionPass: a later occurrence of the extension
\* replaces an earlier one
findExtensionPass_LastWins(b, fieldNumber) ==
    LET t == ConsumeTag(b)
        rest == Drop(b, t.n)
    IN  IF t.n < 0 THEN ReturnNil
        ELSE CASE t.typ = VarintType ->
                    LET m == ConsumeVarint(rest).n
                    IN  IF m < 0 THEN ReturnNil ELSE Continue(Drop(rest, m), <<>>)
               [] t.typ = Fixed32Type ->
                    LET m == ConsumeFixed32(rest)
                    IN  IF m < 0 THEN ReturnNil ELSE Continue(Drop(rest, m), <<>>)
               [] t.typ = Fixed64Type ->
                    LET m == ConsumeFixed64(rest)
                    IN  IF m < 0 THEN ReturnNil ELSE Continue(Drop(rest, m), <<>>)
               [] t.typ = BytesType ->
                    LET c == ConsumeBytes(rest)
                        next == ConsumeTag(Drop(rest, c.n))
                    IN  IF c.n < 0 THEN ReturnNil
                        ELSE IF t.num = fieldNumber
                                /\ ~(next.n > 0 /\ next.num = fieldNumber
                                     /\ next.typ = BytesType)
                        THEN ReturnBytes(c.b)
                        ELSE Continue(Drop(rest, c.n), <<>>)
               [] OTHER -> ReturnNil

\* one pass of the loop of findExtension over the bytes b, which are not empty
findExtensionPass(b, fieldNumber) ==
    LET t == ConsumeTag(b)
        rest == Drop(b, t.n)
    IN  IF t.n < 0 THEN ReturnNil
        ELSE CASE t.typ = VarintType ->
                    LET m == ConsumeVarint(rest).n
                    IN  IF m < 0 THEN ReturnNil ELSE Continue(Drop(rest, m), <<>>)
               [] t.typ = Fixed32Type ->
                    LET m == ConsumeFixed32(rest)
                    IN  IF m < 0 THEN ReturnNil ELSE Continue(Drop(rest, m), <<>>)
               [] t.typ = Fixed64Type ->
                    LET m == ConsumeFixed64(rest)
                    IN  IF m < 0 THEN ReturnNil ELSE Continue(Drop(rest, m), <<>>)
               [] t.typ = BytesType ->
                    LET c == ConsumeBytes(rest)
                    IN  IF c.n < 0 THEN ReturnNil
                        ELSE IF t.num = fieldNumber THEN ReturnBytes(c.b)
                        ELSE Continue(Drop(rest, c.n), <<>>)
               [] OTHER -> ReturnNil

\* one pass of the loop of parseMethodOptions
parseMethodOptionsPass(b) ==
    LET t == ConsumeTag(b)
        rest == Drop(b, t.n)
    IN  IF t.n < 0 THEN ReturnFail
        ELSE IF t.num # 1 \/ t.typ # BytesType
        THEN LET skip == consumeField(t.typ, rest)
             IN  IF skip < 0 THEN ReturnFail ELSE Continue(Drop(rest, skip), <<>>)
        ELSE LET c == ConsumeBytes(rest)
             IN  IF c.n < 0 THEN ReturnFail ELSE ReturnBytes(c.b)

\* one pass of the loop of parseServiceOptions
parseServiceOptionsPass(b, o) ==
    LET t == ConsumeTag(b)
        rest == Drop(b, t.n)
        c == ConsumeBytes(rest)
    IN  IF t.n < 0 THEN ReturnFail
        ELSE IF t.num \in {1, 2}
        THEN IF t.typ # BytesType THEN ReturnFail
             ELSE IF c.n < 0 THEN ReturnFail
             ELSE Continue(Drop(rest, c.n),
                           IF t.num = 1 THEN [o EXCEPT !.Name = c.b]
                           ELSE [o EXCEPT !.Version = c.b])
        ELSE LET skip == consumeField(t.typ, rest)
             IN  IF skip < 0 THEN ReturnFail ELSE Continue(Drop(rest, skip), o)

\* one pass of the loop of parseToolOptions
parseToolOptionsPass(b, o) ==
    LET t == ConsumeTag(b)
        rest == Drop(b, t.n)
        c == ConsumeBytes(rest)
        v == ConsumeVarint(rest)
    IN  IF t.n < 0 THEN ReturnOptions(o)
        ELSE IF t.num \in {1, 2, 3}
        THEN IF t.typ # BytesType THEN ReturnOptions(o)
             ELSE IF c.n < 0 THEN ReturnOptions(o)
             ELSE Continue(Drop(rest, c.n),
                           CASE t.num = 1 -> [o EXCEPT !.Name = c.b]
                             [] t.num = 2 -> [o EXCEPT !.Title = c.b]
                             [] t.num = 3 -> [o EXCEPT !.Description = c.b])
        ELSE IF t.num \in {4, 5, 6}
        THEN IF t.typ # VarintType THEN ReturnOptions(o)
             ELSE IF v.n < 0 THEN ReturnOptions(o)
             ELSE Continue(Drop(rest, v.n),
                           CASE t.num = 4 -> [o EXCEPT !.ReadOnly = (v.v # 0 \/ v.hi # 0)]
                             [] t.num = 5 -> [o EXCEPT !.Idempotent = (v.v # 0 \/ v.hi # 0)]
                             [] t.num = 6 -> [o EXCEPT !.Destructive = (v.v # 0 \/ v.hi # 0)])
        ELSE LET skip == consumeField(t.typ, rest)
             IN  IF skip < 0 THEN ReturnOptions(o) ELSE Continue(Drop(rest, skip), o)

\* the (options, found) pair ToolFromMethod and ServiceFromService return
Result(o, ok) == [value |-> o, found |-> ok]
Absent(t) == Result(ZeroOptions(t), FALSE)
NoResult == [found |-> FALSE]

\* the result of findExtension: nil, or the run of the extension
NilBytes == [nil |-> TRUE, b |-> <<>>]
Bytes(b) == [nil |-> FALSE, b |-> b]

\* the bytes protowire writes: a varint, a tag, a field with its tag
RECURSIVE AppendVarint(_)
AppendVarint(v) ==
    IF v < 128 THEN <<v>> ELSE <<128 + (v % 128)>> \o AppendVarint(v \div 128)

AppendTag(num, typ) == AppendVarint(num * 8 + typ)
BytesField(num, b) == AppendTag(num, BytesType) \o AppendVarint(Len(b)) \o b
VarintField(num, v) == AppendTag(num, VarintType) \o AppendVarint(v)

\* all concatenations of at most n of the chunks
RECURSIVE Concats(_, _)
Concats(chunks, n) ==
    IF n = 0 THEN {<<>>}
    ELSE LET shorter == Concats(chunks, n - 1)
         IN  shorter \cup {s \o c : s \in shorter, c \in chunks}

\* well-formed fields with a number outside both layouts, one of each wire
\* type consumeField skips; the length-delimited one has an empty run
Fixed32Field(num) == AppendTag(num, Fixed32Type) \o <<1, 0, 0, 0>>
Fixed64Field(num) == AppendTag(num, Fixed64Type) \o <<1, 0, 0, 0, 0, 0, 0, 0>>

AddedFields ==
    {VarintField(7, 1), Fixed32Field(7), Fixed64Field(8), BytesField(9, <<>>)}

\* the fields of a ToolOptions or ServiceOptions message that the inputs
\* are made of: well-formed ones of the layout, ones outside it, ones with
\* the wrong wire type, a run longer than the bytes, a group
OptionChunks ==
    {BytesField(1, <<97>>), BytesField(2, <<98>>), VarintField(4, 1), VarintField(5, 0)}
    \cup AddedFields
    \cup
    {VarintField(1, 1), BytesField(4, <<1>>),
     <<10, 5, 97>>,
     AppendTag(1, StartGroupType)}

Payloads == Concats(OptionChunks, MaxFields)

\* the payloads of the extension fields that stand among other fields
ExtA == BytesField(1, BytesField(1, <<97>>))
ExtB == BytesField(1, VarintField(4, 1))

\* the fields of the unknown bytes of the options: the two extensions, well
\* formed fields of other numbers and of every wire type the walk skips,
\* the extension's number with a varint, and garbage (a group, a tag cut
\* short, a run longer than the bytes, field number 0)
UnknownChunks ==
    {BytesField(methodOptionFieldNumber, ExtA), BytesField(methodOptionFieldNumber, ExtB),
     BytesField(serviceOptionFieldNumber, ExtA), BytesField(serviceOptionFieldNumber, ExtB),
     VarintField(methodOptionFieldNumber, 1),
     BytesField(1, <<97>>),
     AppendTag(2, Fixed32Type) \o <<1, 0, 0, 0>>,
     AppendTag(3, Fixed64Type) \o <<1, 0, 0, 0, 0, 0, 0, 0>>,
     AppendTag(1, StartGroupType),
     <<146, 130>>,
     AppendTag(methodOptionFieldNumber, BytesType) \o <<5, 1>>,
     <<2>>}

\* the unknown bytes the calls are made with
Unknowns ==
    Concats(UnknownChunks, MaxFields)
    \cup {BytesField(methodOptionFieldNumber, BytesField(1, p)) : p \in Payloads}
    \cup {BytesField(serviceOptionFieldNumber, p) : p \in Payloads}

muxVars == <<tools, metadata, requestLogger, registered, seqVars, concVars, convVars>>

\* ToolFromMethod(method) or ServiceFromService(service) has been called and
\* is about to call findExtension on the unknown bytes of the options
DecInit ==
    /\ tools = EmptyRegistry
    /\ metadata = ServerMetadata
    /\ requestLogger = "default"
    /\ req = NoRequest
    /\ w = NoResponse
    /\ calls = <<>>
    /\ logged = <<>>
    /\ registered = EmptyRegistry
    /\ mu = [w |-> 0, r |-> {}]
    /\ pc = [p \in Procs |-> "idle"]
    /\ op = [p \in Procs |-> NoOp]
    /\ decoded = [p \in Procs |-> NoRequest]
    /\ found = [p \in Procs |-> NotFound]
    /\ listing = [p \in Procs |-> <<>>]
    /\ resp = [p \in Procs |-> NoResponse]
    /\ events = [p \in Procs |-> <<>>]
    /\ unknown \in Unknowns
    /\ target \in {"method", "service"}
    /\ dpc = "findExtension"
    /\ raw = unknown
    /\ ext = NilBytes
    /\ parsed = <<>>
    /\ ret = NoResult
    /\ convert = [pc |-> "idle"]

\* findExtension: one pass of its loop, or its return at the end of the
\* bytes; ToolFromMethod and ServiceFromService return absent when it
\* returns nil and call their sub-decoder on the run when it returns one
FindExtension ==
    /\ dpc = "findExtension"
    /\ LET s == IF raw = <<>> THEN ReturnNil
                ELSE findExtensionPass(raw, FieldNumber(target))
       IN  CASE s.k = "nil" ->
                  /\ dpc' = "returned"
                  /\ ret' = Absent(target)
                  /\ UNCHANGED <<raw, ext, parsed>>
             [] s.k = "bytes" ->
                  /\ dpc' = IF target = "method" THEN "parseMethodOptions"
                            ELSE "parseServiceOptions"
                  /\ ext' = Bytes(s.b)
                  /\ raw' = s.b
                  /\ parsed' = IF target = "method" THEN <<>> ELSE ZeroServiceOptions
                  /\ UNCHANGED ret
             [] s.k = "continue" ->
                  /\ raw' = s.raw
                  /\ UNCHANGED <<dpc, ext, parsed, ret>>
    /\ UNCHANGED <<muxVars, unknown, target>>

\* parseMethodOptions: one pass of its loop, or the end of the bytes with
\* toolBytes still nil
ParseMethodOptions ==
    /\ dpc = "parseMethodOptions"
    /\ LET s == IF raw = <<>> THEN ReturnFail ELSE parseMethodOptionsPass(raw)
       IN  CASE s.k = "fail" ->
                  /\ dpc' = "returned"
                  /\ ret' = Result(ZeroToolOptions, FALSE)
                  /\ UNCHANGED <<raw, parsed>>
             [] s.k = "bytes" ->
                  /\ dpc' = "parseToolOptions"
                  /\ raw' = s.b
                  /\ parsed' = ZeroToolOptions
                  /\ UNCHANGED ret
             [] s.k = "continue" ->
                  /\ raw' = s.raw
                  /\ UNCHANGED <<dpc, parsed, ret>>
    /\ UNCHANGED <<muxVars, unknown, target, ext>>

\* faulty variant of ParseToolOptions: a pass that decodes a field leaves
\* the bytes as they are
ParseToolOptions_KeepsBytes ==
    /\ dpc = "parseToolOptions"
    /\ LET s == IF raw = <<>> THEN ReturnOptions(parsed)
                ELSE parseToolOptionsPass(raw, parsed)
       IN  CASE s.k = "options" ->
                  /\ dpc' = "returned"
                  /\ ret' = Result(s.out, TRUE)
                  /\ UNCHANGED <<raw, parsed>>
             [] s.k = "continue" ->
                  /\ raw' = raw
                  /\ parsed' = s.out
                  /\ UNCHANGED <<dpc, ret>>
    /\ UNCHANGED <<muxVars, unknown, target, ext>>

\* parseToolOptions: one pass of its loop, or its return at the end of the
\* bytes; parseMethodOptions returns what it returns, with true
ParseToolOptions ==
    /\ dpc = "parseToolOptions"
    /\ LET s == IF raw = <<>> THEN ReturnOptions(parsed)
                ELSE parseToolOptionsPass(raw, parsed)
       IN  CASE s.k = "options" ->
                  /\ dpc' = "returned"
                  /\ ret' = Result(s.out, TRUE)
                  /\ UNCHANGED <<raw, parsed>>
             [] s.k = "continue" ->
                  /\ raw' = s.raw
                  /\ parsed' = s.out
                  /\ UNCHANGED <<dpc, ret>>
    /\ UNCHANGED <<muxVars, unknown, target, ext>>

\* parseServiceOptions: one pass of its loop, or its return at the end of
\* the bytes
ParseServiceOptions ==
    /\ dpc = "parseServiceOptions"
    /\ LET s == IF raw = <<>> THEN ReturnOptions(parsed)
                ELSE parseServiceOptionsPass(raw, parsed)
       IN  CASE s.k = "fail" ->
                  /\ dpc' = "returned"
                  /\ ret' = Result(ZeroServiceOptions, FALSE)
                  /\ UNCHANGED <<raw, parsed>>
             [] s.k = "options" ->
                  /\ dpc' = "returned"
                  /\ ret' = Result(s.out, TRUE)
                  /\ UNCHANGED <<raw, parsed>>
             [] s.k = "continue" ->
                  /\ raw' = s.raw
                  /\ parsed' = s.out
                  /\ UNCHANGED <<dpc, ret>>
    /\ UNCHANGED <<muxVars, unknown, target, ext>>

DecNext ==
    \/ FindExtension
    \/ ParseMethodOptions
    \/ ParseToolOptions
    \/ ParseServiceOptions

DecSpec == DecInit /\ [][DecNext]_vars

(***************************************************************************)
(* ArgSpec: one call of DecodeArgs(args, msg) of runtime/convert.go, with  *)
(* msg nil or an empty message of the request shape (one string field,     *)
(* "name").                                                                *)
(***************************************************************************)
\* the kinds of Go value an entry of args holds ("absent": no entry)
ValueKinds == {"absent", "string", "number", "bool", "chan"}

\* the args the calls are made with: nil, or a map
ConvArgs == {GoArgs(TRUE, NoArgs)} \cup {GoArgs(FALSE, m) : m \in [ArgKeys -> ValueKinds]}

NilMessage == "nil"
HelloRequest == "HelloRequest"

otherVars == <<tools, metadata, requestLogger, registered, seqVars, concVars, decVars>>

\* DecodeArgs is about to be called
ArgInit ==
    /\ tools = EmptyRegistry
    /\ metadata = ServerMetadata
    /\ requestLogger = "default"
    /\ req = NoRequest
    /\ w = NoResponse
    /\ calls = <<>>
    /\ logged = <<>>
    /\ registered = EmptyRegistry
    /\ mu = [w |-> 0, r |-> {}]
    /\ pc = [p \in Procs |-> "idle"]
    /\ op = [p \in Procs |-> NoOp]
    /\ decoded = [p \in Procs |-> NoRequest]
    /\ found = [p \in Procs |-> NotFound]
    /\ listing = [p \in Procs |-> <<>>]
    /\ resp = [p \in Procs |-> NoResponse]
    /\ events = [p \in Procs |-> <<>>]
    /\ unknown = <<>>
    /\ target = "none"
    /\ dpc = "idle"
    /\ raw = <<>>
    /\ ext = NilBytes
    /\ parsed = <<>>
    /\ ret = NoResult
    /\ convert \in {[pc |-> "called", args |-> a, msg |-> s] :
                       a \in ConvArgs, s \in {NilMessage, HelloRequest}}

\* the whole call: nothing is done for a nil msg; otherwise args is
\* marshalled and unmarshalled into msg
CallDecodeArgs ==
    /\ convert.pc = "called"
    /\ convert' = [pc |-> "returned", args |-> convert.args, msg |-> convert.msg,
                   res |-> IF convert.msg = NilMessage
                           THEN [err |-> FALSE, text |-> "", msg |-> ""]
                           ELSE DecodeArgs(convert.args)]
    /\ UNCHANGED otherVars

ArgNext == CallDecodeArgs

ArgSpec == ArgInit /\ [][ArgNext]_vars

(***************************************************************************)
(* Properties of one dispatch (under Spec).                                *)
(***************************************************************************)
\* the last step was a ServeHTTP call whose body decoded into an MCPRequest
Decoded == req.httpMethod = "POST" /\ req.parses

\* the response has no body at all: 204 and nothing written
NoContent == w.status = StatusNoContent /\ w.body = NoBody /\ w.contentType = ""

\* the body is a JSON-RPC error response, and nothing else
ErrorBody == w.body.kind = "json" /\ "error" \in DOMAIN w.body /\ "result" \notin DOMAIN w.body

\* the body is a JSON-RPC success response, and nothing else
ResultBody == w.body.kind = "json" /\ "result" \in DOMAIN w.body /\ "error" \notin DOMAIN w.body

ErrorCode(code) == ErrorBody /\ w.body.error.code = code

\* C1: every decoded request that carries no id, whatever its method, gets no
\* response body: the transport gets 204 and neither a result nor an error
\* is written.
C1_NoIdNoBody == (Decoded /\ req.ID = NilID) => NoContent

\* C2: a request whose method is notifications/initialized gets no response
\* body (204, empty), with or without an id, in every registry state, and no
\* tool handler runs.
C2_InitializedNoBody ==
    (Decoded /\ req.Method = "notifications/initialized") => (NoContent /\ calls = <<>>)

C2_Witness ==
    /\ Decoded /\ req.Method = "notifications/initialized" /\ req.ID # NilID
    /\ DOMAIN tools # {}
    /\ NoContent

\* C3: transport status, for the requests that carry an id: 400 only for a
\* parse failure or a routing failure (a request that is not a POST, a method
\* that is not recognized); notifications/initialized 204 and empty;
\* everything else, the in-band errors of tools/call included (-32602, -32601
\* tool not found, -32000), 200 with a JSON-RPC body.  (A result that
\* encoding/json cannot encode, answered 500, is left aside.)
C3_TransportStatus ==
    LET transportFailure == req.httpMethod \notin {"POST", "OPTIONS"} \/ ~req.parses
        routingFailure == Decoded /\ req.Method \notin Methods \ {"resources/list"}
    IN  /\ (req # NoRequest /\ req.httpMethod # "OPTIONS" /\ transportFailure)
              => w.status = StatusBadRequest
        /\ (Decoded /\ req.ID # NilID) =>
              /\ w.status = StatusBadRequest => routingFailure
              /\ req.Method = "notifications/initialized" => NoContent
              /\ (/\ ~routingFailure /\ req.Method # "notifications/initialized"
                  /\ w.status # StatusInternalServerError)
                    => (w.status = StatusOK /\ w.body.kind = "json")

\* C4: tools/call whose params.name is absent or not a string yields error
\* -32602, and no tool handler is invoked, in every registry state.
C4_MissingToolName ==
    (Decoded /\ req.Method = "tools/call" /\ req.Params.name.t # "string")
        => (ErrorCode(-32602) /\ w.body.id = req.ID /\ calls = <<>>)

C4_Witness ==
    /\ Decoded /\ req.Method = "tools/call" /\ req.Params.name.t = "number"
    /\ DOMAIN tools # {}
    /\ ErrorCode(-32602)

\* C5: tools/call whose string name has no registry entry (any name against
\* the empty registry in particular) yields error -32601 naming the tool, and
\* no tool handler is invoked.
C5_ToolNotFound ==
    (/\ Decoded /\ req.Method = "tools/call" /\ req.Params.name.t = "string"
     /\ req.Params.name.s \notin DOMAIN tools)
        => /\ ErrorCode(-32601)
           /\ w.body.error.message = "Tool not found: " \o req.Params.name.s
           /\ w.body.id = req.ID
           /\ calls = <<>>

C5_Witness ==
    /\ Decoded /\ req.Method = "tools/call" /\ req.Params.name.t = "string"
    /\ req.Params.name.s \in Names \ DOMAIN tools
    /\ DOMAIN tools # {}
    /\ ErrorCode(-32601)

\* the last step was a tools/call that reached tool.Handler
Invoked == Decoded /\ req.Method = "tools/call" /\ Len(calls) = 1

\* C6: when the handler of a registered tool fails, the response is error
\* -32000 whose message is exactly the handler's failure text; the step
\* leaves the registry as it was, and a request of every method can be
\* dispatched after it.
C6_InvokerFailure ==
    /\ [](Invoked /\ calls[1].err =>
            /\ ErrorCode(-32000)
            /\ w.body.error.message = calls[1].text
            /\ w.body.id = req.ID
            /\ \A m \in Methods :
                  ENABLED ServeHTTP(MCPRequest("POST", TRUE, "1", m, NoParams)))
    /\ [][(Len(calls') = 1 /\ calls'[1].err) =>
            (tools' = tools /\ metadata' = metadata)]_vars

C6_Witness ==
    /\ Invoked /\ calls[1].cause = "remote" /\ calls[1].text = "not found"
    /\ ErrorCode(-32000) /\ w.body.error.message = "not found"

\* C7: on a tools/call, a failure to decode the arguments into the request
\* shape is reported as error -32602 and a failure to encode the result as
\* error -32000.
C7_BridgeFailureCodes ==
    Invoked =>
        /\ calls[1].cause = "decode" => ErrorCode(-32602)
        /\ calls[1].cause = "encode" => ErrorCode(-32000)

\* the entries of the tools/list result in the response
ListedTools == w.body.result.tools

Listed == Decoded /\ req.Method = "tools/list" /\ ResultBody

\* C8: the tools/list entry of every registered tool carries the registered
\* name and description, the title exactly when it is not empty, and an
\* annotations object holding readOnlyHint / idempotentHint / destructiveHint
\* exactly for the flags registered as true, each with the value true;
\* annotations is omitted when no flag is true.
C8_ListedMetadata ==
    Listed =>
        \A n \in DOMAIN registered :
            \E i \in DOMAIN ListedTools :
                LET e == ListedTools[i]
                    t == registered[n]
                    hints == {h \in {"readOnlyHint"} : t.ReadOnly}
                             \cup {h \in {"idempotentHint"} : t.Idempotent}
                             \cup {h \in {"destructiveHint"} : t.Destructive}
                IN  /\ e.name = n /\ e.name = t.Name
                    /\ e.description = t.Description
                    /\ ("title" \in DOMAIN e) = (t.Title # "")
                    /\ "title" \in DOMAIN e => e.title = t.Title
                    /\ ("annotations" \in DOMAIN e) = (hints # {})
                    /\ "annotations" \in DOMAIN e =>
                          /\ DOMAIN e.annotations = hints
                          /\ \A h \in hints : e.annotations[h] = TRUE

\* a tool registered with read_only alone lists annotations {readOnlyHint: true}
C8_Witness ==
    /\ Listed
    /\ "greeter.say_hello" \in DOMAIN registered
    /\ registered["greeter.say_hello"].ReadOnly
    /\ ~registered["greeter.say_hello"].Idempotent
    /\ ~registered["greeter.say_hello"].Destructive
    /\ \E i \in DOMAIN ListedTools :
          /\ ListedTools[i].name = "greeter.say_hello"
          /\ ListedTools[i].annotations = [readOnlyHint |-> TRUE]

\* C9: after any sequence of RegisterTool calls the registry maps each
\* registered name to the tool of the most recent call for that name;
\* tools/list returns one entry per registered name, no more and no
\* duplicates, and the same set of entries when called again with no
\* RegisterTool in between.
C9_LastRegistrationWins ==
    /\ [](tools = registered)
    /\ [](Listed =>
            /\ Len(ListedTools) = Cardinality(DOMAIN registered)
            /\ {ListedTools[i].name : i \in DOMAIN ListedTools} = DOMAIN registered)
    /\ [][(Listed /\ Listed') =>
            {ListedTools[i] : i \in DOMAIN ListedTools}
                = {ListedTools'[i] : i \in DOMAIN ListedTools'}]_vars

\* every name registered, then listed
C9_Witness ==
    /\ Listed
    /\ Cardinality(DOMAIN registered) = MaxTools
    /\ Len(ListedTools) = MaxTools
    /\ \E n \in DOMAIN tools : tools[n] # ToolHandler(n, "", "plain", NilSchema, FALSE, FALSE, FALSE, "bridge")

\* the methods ServeHTTP has a case for
KnownMethods == {"initialize", "notifications/initialized", "tools/list", "tools/call"}

\* C15: a request that carries an id and whose method is none of initialize,
\* notifications/initialized, tools/list, tools/call is answered with error
\* -32601 whose message names the method, under the request's id; no
\* Handler is invoked and the registry is neither read (the response is the
\* same in every registry state) nor changed.
C15_MethodNotFound ==
    /\ []((Decoded /\ req.ID # NilID /\ req.Method \notin KnownMethods) =>
            /\ w = ResponseWriter(StatusBadRequest, "application/json",
                       [kind |-> "json", jsonrpc |-> "2.0", id |-> req.ID,
                        error |-> [code |-> -32601,
                                   message |-> "Method not found: " \o req.Method]])
            /\ calls = <<>>)
    /\ [][(req'.httpMethod = "POST" /\ req'.parses /\ req'.Method \notin KnownMethods) =>
            (tools' = tools /\ registered' = registered)]_vars

\* resources/list with an id is answered while tools are registered
C15_Witness ==
    /\ Decoded /\ req.ID = "1" /\ req.Method = "resources/list"
    /\ ErrorCode(-32601)
    /\ DOMAIN tools # {}

(***************************************************************************)
(* Properties of the locking (under ConcSpec).                             *)
(***************************************************************************)
\* the goroutines reading mux.tools, and those writing it
MapReaders == {p \in Procs : pc[p] \in {"list_copy", "call_lookup"}}
MapWriters == {p \in Procs : pc[p] = "reg_write"}

\* C10: RegisterTool is safe under every interleaving with RegisterTool,
\* tools/list and tools/call: while a goroutine writes mux.tools it holds
\* mux.mu exclusively, so no other goroutine reads or writes the map; and
\* RegisterTool has no failure outcome: a goroutine inside it writes no
\* response and is at one of its four steps.
C10_RegisterExclusive ==
    \A p \in Procs :
        /\ p \in MapWriters =>
              /\ mu.w = p /\ mu.r = {}
              /\ MapWriters = {p} /\ MapReaders = {}
        /\ p \in MapReaders => (p \in mu.r /\ MapWriters = {})
        /\ op[p].kind = "register" =>
              /\ pc[p] \in {"reg_lock", "reg_wait", "reg_write", "reg_unlock"}
              /\ resp[p] = NoResponse

\* a registration writes the map while a tools/list and a tools/call wait
\* for the lock
C10_Witness ==
    \E p \in Procs :
        /\ pc[p] = "reg_write"
        /\ \E q \in Procs \ {p} : pc[q] \in {"list_rlock", "call_rlock", "reg_lock"}
        /\ DOMAIN tools # {}

\* the goroutines that hold a read lock for a lookup, those about to take one
Lookups == {p \in Procs : pc[p] \in {"list_copy", "list_send", "list_runlock",
                                     "call_lookup", "call_runlock"}}
AtRLock == {p \in Procs : pc[p] \in {"list_rlock", "call_rlock"}}

\* C11: concurrent registry lookups (the enumeration of tools/list, the
\* resolution of tools/call) do not block each other: a lookup that is about
\* to take the read lock can take it however many other lookups hold it,
\* unless a RegisterTool holds or has asked for the write lock; and every
\* lookup in progress holds the read lock together with the others.
C11_LookupsDoNotBlock ==
    /\ Lookups = mu.r
    /\ \A p \in AtRLock :
          mu.w = 0 =>
              /\ pc[p] = "list_rlock" => ENABLED ListRLock(p)
              /\ pc[p] = "call_rlock" => ENABLED CallRLock(p)

\* a resolution is about to take the read lock while an enumeration holds it
C11_Witness ==
    \E p, q \in Procs :
        /\ pc[p] = "call_rlock"
        /\ pc[q] \in {"list_copy", "list_send"} /\ q \in mu.r
        /\ mu.w = 0

\* C12: tools/list holds the registry read lock only while it copies the
\* registry: the lock is released before the response is written, so no
\* RegisterTool waits in Lock() for a tools/list that is writing its response.
C12_ListLockOnlyWhileCopying ==
    \A p, q \in Procs :
        ~(/\ pc[p] = "list_send" /\ p \in mu.r
          /\ pc[q] = "reg_wait" /\ mu.w = q)

(***************************************************************************)
(* Properties of one call among concurrent ones (under ConcSpec).          *)
(***************************************************************************)
\* the number of events of one kind in a goroutine's history
Count(p, e) == Cardinality({i \in DOMAIN events[p] : events[p][i].e = e})

\* the goroutine is in ServeHTTP with a decoded request of this method
Serving(p, method) == decoded[p] # NoRequest /\ decoded[p].Method = method

\* C13: a tools/call that resolves a registered tool invokes that tool's
\* Handler exactly once, with the request's arguments; it writes nothing
\* while the Handler runs and leaves that state only when the Handler
\* returns (its own result, or the error of the caller's cancelled context),
\* answering with what it returned: no timeout, no second call.  A
\* tools/call that fails name validation or lookup invokes no Handler.
C13_InvokedExactlyOnce ==
    /\ [](\A p \in Procs :
            /\ pc[p] = "call_running" =>
                  /\ found[p].exists
                  /\ found[p].tool.Name = ToolName(decoded[p].Params).s
                  /\ Count(p, "Handler") = 1
                  /\ events[p][Len(events[p])] =
                        HandlerEvent(found[p].tool, Arguments(decoded[p].Params))
                  /\ resp[p] = NoResponse
            /\ (pc[p] = "done" /\ Serving(p, "tools/call")) =>
                  Count(p, "Handler") =
                      IF ToolName(decoded[p].Params).ok /\ found[p].exists THEN 1 ELSE 0
            /\ pc[p] \notin {"call_running", "done"} => Count(p, "Handler") = 0)
    /\ [][\A p \in Procs :
            (pc[p] = "call_running" /\ pc'[p] # "call_running") =>
                /\ pc'[p] = "done"
                /\ events'[p] = events[p]
                /\ \E r \in HandlerResults(found[p].tool, Arguments(decoded[p].Params)) :
                      resp'[p] = CallToolResponse(decoded[p].ID, r)]_vars

\* a resolved call whose Handler failed is answered after one invocation
C13_Witness ==
    \E p \in Procs :
        /\ pc[p] = "done" /\ Serving(p, "tools/call")
        /\ found[p].exists /\ found[p].tool.Handler = "remotefail"
        /\ Count(p, "Handler") = 1
        /\ resp[p].body.error.message = "not found"

\* C14: initialize always succeeds and never consults the registry: its
\* result (protocol version, configured server name and version,
\* capabilities declaring tools) is the same in every registry state, it
\* takes no registry lock, and each of its steps can be taken whatever
\* registration or lookup is in progress.
C14_InitializeIndependent ==
    \A p \in Procs :
        Serving(p, "initialize") =>
            /\ pc[p] \in {"logger", "dispatch", "done"}
            /\ p \notin mu.r /\ mu.w # p /\ Count(p, "RLock") = 0
            /\ pc[p] = "logger" => ENABLED LoggerReturns(p)
            /\ pc[p] = "dispatch" => ENABLED DispatchStep(p)
            /\ pc[p] = "done" =>
                  /\ ENABLED Return(p)
                  /\ resp[p] =
                        ResponseWriter(StatusOK, "application/json",
                            [kind |-> "json", jsonrpc |-> "2.0", id |-> decoded[p].ID,
                             result |->
                                [protocolVersion |-> "2025-11-25",
                                 serverInfo |-> [name |-> "greeter-mcp",
                                                 version |-> "v0.1.0"],
                                 capabilities |-> [tools |-> <<>>]]])

\* initialize is answered while a registration holds the write lock on a
\* registry that is not empty
C14_Witness ==
    \E p, q \in Procs :
        /\ Serving(p, "initialize") /\ pc[p] = "done"
        /\ pc[q] = "reg_write" /\ mu.w = q
        /\ DOMAIN tools # {}

(***************************************************************************)
(* Properties of the request logger (under HookSpec and HookLiveSpec).     *)
(***************************************************************************)
\* the steps of ServeHTTP that follow the return of mux.requestLogger
AfterLogger == {"dispatch", "list_rlock", "list_copy", "list_send", "list_runlock",
                "call_rlock", "call_lookup", "call_runlock", "call_running"}

\* C16: with a request logger configured, every request that decodes,
\* whatever its method, is handed to the logger exactly once, and the call
\* is synchronous: while the logger runs nothing has been looked up,
\* invoked or written, and every later step of the call comes after its
\* return.  A request that does not decode is not handed to it.
C16_LoggerOncePerRequest ==
    \A p \in Procs :
        /\ pc[p] = "logger" =>
              /\ events[p] = <<LoggerEvent(op[p].r)>>
              /\ resp[p] = NoResponse /\ found[p] = NotFound /\ listing[p] = <<>>
              /\ p \notin mu.r
        /\ (pc[p] \in AfterLogger \/ (pc[p] = "done" /\ op[p].r.parses)) =>
              /\ Count(p, "requestLogger") = 1
              /\ events[p][1] = LoggerEvent(op[p].r)
        /\ (pc[p] = "decode" \/ (pc[p] = "done" /\ ~op[p].r.parses)) =>
              Count(p, "requestLogger") = 0

\* a notification, which has no id, has been handed to the logger and is
\* being dispatched
C16_Witness ==
    \E p \in Procs :
        /\ pc[p] = "dispatch"
        /\ op[p].r.Method = "notifications/initialized" /\ op[p].r.ID = NilID
        /\ events[p] = <<LoggerEvent(op[p].r)>>

\* C17: the request logger cannot alter control flow: a call ends with the
\* branch, the Handler invocation and the response that the request it
\* received determines, whatever the logger did with the request.
C17_LoggerCannotAlterDispatch ==
    \A p \in Procs :
        (pc[p] = "done" /\ op[p].r.parses) =>
            LET r == op[p].r
            IN  IF r.Method = "tools/list"
                THEN /\ Count(p, "RLock") = 1 /\ Count(p, "Handler") = 0
                     /\ resp[p] = sendSuccess(r.ID, [tools |-> listing[p]])
                ELSE IF r.Method = "tools/call" /\ ToolName(r.Params).ok
                THEN /\ Count(p, "RLock") = 1
                     /\ IF found[p].exists
                        THEN /\ events[p][Len(events[p])] =
                                   HandlerEvent(found[p].tool, Arguments(r.Params))
                             /\ \E x \in HandlerResults(found[p].tool, Arguments(r.Params)) :
                                   resp[p] = CallToolResponse(r.ID, x)
                        ELSE /\ Count(p, "Handler") = 0
                             /\ resp[p] = sendError(r.ID, -32601,
                                                    ToolNotFound(ToolName(r.Params).s))
                ELSE /\ Count(p, "RLock") = 0 /\ Count(p, "Handler") = 0
                     /\ resp[p] = Dispatch(EmptyRegistry, metadata, <<>>, r).w

\* C18: the request logger cannot block dispatch for ever: a call that has
\* handed its request to the logger goes on to dispatch it.
C18_LoggerCannotBlockDispatch ==
    \A p \in Procs : (pc[p] = "logger") ~> (pc[p] = "dispatch")

(***************************************************************************)
(* Properties of the option decoder (under DecSpec).                       *)
(***************************************************************************)
\* at offset i of b stands the tag of a length-delimited field with this
\* number; and its run is whole
TagAt(b, i, fieldNumber) ==
    LET t == ConsumeTag(Drop(b, i))
    IN  t.n > 0 /\ t.num = fieldNumber /\ t.typ = BytesType

FieldAt(b, i, fieldNumber) ==
    /\ TagAt(b, i, fieldNumber)
    /\ ConsumeBytes(Drop(b, i + ConsumeTag(Drop(b, i)).n)).n >= 0

Contains(b, fieldNumber) == \E i \in 0..(Len(b) - 1) : FieldAt(b, i, fieldNumber)

\* C19: for unknown bytes of any kind (well formed or garbage: a tag or a
\* length cut short, a wire type that is not supported) that hold the
\* extension's number as a length-delimited field at no offset,
\* findExtension returns nil without a fault at any pass, no sub-decoder
\* runs, and the call returns zero-valued options with found = false.
C19_AbsentWithoutExtension ==
    ~Contains(unknown, FieldNumber(target)) =>
        /\ dpc \in {"findExtension", "returned"}
        /\ ext = NilBytes
        /\ dpc = "findExtension" => ENABLED FindExtension
        /\ dpc = "returned" =>
              /\ ret.found = FALSE
              /\ ret.value = IF target = "method"
                             THEN ToolOptions(<<>>, <<>>, <<>>, FALSE, FALSE, FALSE)
                             ELSE ServiceOptions(<<>>, <<>>)

\* ToolFromMethod has returned absent for the service's extension followed
\* by a tag that is cut short
C19_Witness ==
    /\ dpc = "returned" /\ target = "method"
    /\ unknown = BytesField(serviceOptionFieldNumber, ExtA) \o <<146, 130>>
    /\ ret = Result(ZeroToolOptions, FALSE)

\* the well-formed fields that are not the extension of this number
OtherFields(fieldNumber) ==
    {BytesField(n, e) : n \in {methodOptionFieldNumber, serviceOptionFieldNumber} \ {fieldNumber},
                        e \in {ExtA, ExtB}}
    \cup {VarintField(methodOptionFieldNumber, 1),
          BytesField(1, <<97>>),
          AppendTag(2, Fixed32Type) \o <<1, 0, 0, 0>>,
          AppendTag(3, Fixed64Type) \o <<1, 0, 0, 0, 0, 0, 0, 0>>}

IsPrefix(s, t) == Len(s) <= Len(t) /\ SubSeq(t, 1, Len(s)) = s

\* C20: when the unknown bytes hold the extension's number as a
\* length-delimited field more than once, findExtension returns the run of
\* the first occurrence, and the sub-decoder is given that run: a later
\* occurrence, well formed or not, and anything else that follows are not
\* read.
C20_FirstOccurrenceWins ==
    \A before \in Concats(OtherFields(FieldNumber(target)), MaxFields), run \in {ExtA, ExtB} :
        LET first == before \o BytesField(FieldNumber(target), run)
        IN  (/\ IsPrefix(first, unknown)
             /\ \E i \in Len(first)..(Len(unknown) - 1) : TagAt(unknown, i, FieldNumber(target))) =>
                /\ dpc # "findExtension" => ext = Bytes(run)
                /\ dpc \in {"parseMethodOptions", "parseServiceOptions"} =>
                      \E k \in 0..Len(run) : raw = Drop(run, k)
                /\ dpc = "returned" => ret.found

\* ToolFromMethod has decoded the first occurrence of its extension; the
\* second one has a run longer than the bytes that are left
C20_Witness ==
    /\ dpc = "returned" /\ target = "method"
    /\ unknown = BytesField(methodOptionFieldNumber, ExtA)
                    \o AppendTag(methodOptionFieldNumber, BytesType) \o <<5, 1>>
    /\ ext = Bytes(ExtA)
    /\ ret = Result(ToolOptions(<<97>>, <<>>, <<>>, FALSE, FALSE, FALSE), TRUE)

\* the wire type the sub-decoder of t ("tool" or "service") expects for a
\* field number of its layout; any type it can skip for a number outside it
ExpectedType(t, num, typ) ==
    IF t = "tool" /\ num \in {1, 2, 3} THEN typ = BytesType
    ELSE IF t = "tool" /\ num \in {4, 5, 6} THEN typ = VarintType
    ELSE IF t = "service" /\ num \in {1, 2} THEN typ = BytesType
    ELSE typ \in {VarintType, Fixed32Type, Fixed64Type, BytesType}

\* b is a well-formed message of t: a sequence of whole fields, each with a
\* valid tag and the wire type expected for its number
RECURSIVE WellFormed(_, _)
WellFormed(b, t) ==
    \/ b = <<>>
    \/ LET tag == ConsumeTag(b)
           rest == Drop(b, tag.n)
           skip == consumeField(tag.typ, rest)
       IN  /\ tag.n > 0
           /\ ExpectedType(t, tag.num, tag.typ)
           /\ skip >= 0
           /\ WellFormed(Drop(rest, skip), t)

\* the unknown bytes that hold the extension of the target with payload p:
\* the method's extension holds the ToolOptions message in its field 1
Extension(t, p) ==
    IF t = "method" THEN BytesField(methodOptionFieldNumber, BytesField(1, p))
    ELSE BytesField(serviceOptionFieldNumber, p)

MalformedToolPayloads == {p \in Payloads : ~WellFormed(p, "tool")}
MalformedServicePayloads == {p \in Payloads : ~WellFormed(p, "service")}
MalformedPayloads(t) ==
    IF t = "method" THEN MalformedToolPayloads ELSE MalformedServicePayloads

\* C21: when the payload of the extension is malformed or has a field of
\* its layout with the wrong wire type, at any position, ToolFromMethod and
\* ServiceFromService return zero-valued options with found = false; never
\* found = true with the options of the fields before that point.
C21_NoPartialOptions ==
    (/\ dpc = "returned"
     /\ \E p \in MalformedPayloads(target) : unknown = Extension(target, p)) =>
        ret = Absent(target)

\* whole fields of the layout of the sub-decoder of the target whose wire
\* type is not the one expected for their number: a string-valued number as
\* a varint, a boolean number (ToolOptions only) as length-delimited
MismatchedFields(t) ==
    IF t = "method" THEN {VarintField(1, 1), BytesField(4, <<1>>)}
    ELSE {VarintField(1, 1)}

\* C22: in every walk a field whose wire type is not the one expected for
\* its number is consumed by its actual wire type and the walk continues:
\* after the extension's number as a varint the locator still returns the
\* run of the length-delimited extension that follows, and after a
\* mismatched field of the layout the sub-decoder still decodes the
\* well-formed field 2 (Title, Version) that follows.
C22_MismatchedFieldSkipped ==
    dpc = "returned" =>
        /\ \A run \in {ExtA, ExtB} :
              unknown = VarintField(methodOptionFieldNumber, 1)
                           \o BytesField(FieldNumber(target), run) =>
                  ext = Bytes(run)
        /\ \A mis \in MismatchedFields(target) :
              unknown = Extension(target, mis \o BytesField(2, <<98>>)) =>
                  /\ ret.found
                  /\ target = "method" => ret.value.Title = <<98>>
                  /\ target = "service" => ret.value.Version = <<98>>

\* parseToolOptions(raw) and parseServiceOptions(raw) as functions: the
\* passes of the loop from the first byte to the return
RECURSIVE parseToolOptionsFrom(_, _)
parseToolOptionsFrom(b, o) ==
    IF b = <<>> THEN o
    ELSE LET s == parseToolOptionsPass(b, o)
         IN  IF s.k = "options" THEN s.out ELSE parseToolOptionsFrom(s.raw, s.out)

parseToolOptions(b) == parseToolOptionsFrom(b, ZeroToolOptions)

RECURSIVE parseServiceOptionsFrom(_, _)
parseServiceOptionsFrom(b, o) ==
    IF b = <<>> THEN Result(o, TRUE)
    ELSE LET s == parseServiceOptionsPass(b, o)
         IN  IF s.k = "fail" THEN Result(ZeroServiceOptions, FALSE)
             ELSE parseServiceOptionsFrom(s.raw, s.out)

parseServiceOptions(b) == parseServiceOptionsFrom(b, ZeroServiceOptions)

\* the offsets of b at which a field starts or the bytes end
RECURSIVE Boundaries(_)
Boundaries(b) ==
    IF b = <<>> THEN {0}
    ELSE LET tag == ConsumeTag(b)
             n == tag.n + consumeField(tag.typ, Drop(b, tag.n))
         IN  {0} \cup {n + k : k \in Boundaries(Drop(b, n))}

\* the well-formed payloads with one field less than the bound, and each of
\* them with one added field at one of its boundaries
WellFormedToolPayloads ==
    {p \in Concats(OptionChunks, MaxFields - 1) : WellFormed(p, "tool")}
WellFormedServicePayloads ==
    {p \in Concats(OptionChunks, MaxFields - 1) : WellFormed(p, "service")}

Insert(p, k, x) == SubSeq(p, 1, k) \o x \o Drop(p, k)

ToolInsertions ==
    UNION {{[p |-> p, q |-> Insert(p, k, x)] : k \in Boundaries(p), x \in AddedFields} :
              p \in WellFormedToolPayloads}
ServiceInsertions ==
    UNION {{[p |-> p, q |-> Insert(p, k, x)] :
               k \in Boundaries(p),
               x \in AddedFields \cup {VarintField(4, 1), VarintField(5, 0), BytesField(4, <<1>>)}} :
              p \in WellFormedServicePayloads}

\* C23: for a well-formed ToolOptions or ServiceOptions payload p, the
\* payload q made by inserting at any field boundary of p a well-formed
\* field with a number outside the layout (varint, 4-byte, 8-byte or
\* length-delimited) decodes to the (value, found) pair p decodes to.
C23_AddedFieldIgnored ==
    dpc = "returned" =>
        /\ target = "method" =>
              \A i \in ToolInsertions :
                  unknown = Extension("method", i.q) =>
                      ret = Result(parseToolOptions(i.p), TRUE)
        /\ target = "service" =>
              \A i \in ServiceInsertions :
                  unknown = Extension("service", i.q) =>
                      /\ ret = parseServiceOptions(i.p)
                      /\ ret.found

\* ToolFromMethod has decoded name = "a" from a payload with an 8-byte
\* field 8 before the name
C23_Witness ==
    /\ dpc = "returned" /\ target = "method"
    /\ unknown = Extension("method", Fixed64Field(8) \o BytesField(1, <<97>>))
    /\ ret = Result(ToolOptions(<<97>>, <<>>, <<>>, FALSE, FALSE, FALSE), TRUE)

(***************************************************************************)
(* Properties of the value bridge (under ArgSpec).                         *)
(***************************************************************************)
\* the entries of args: none for a nil map
Entries(a) == IF a.isNil THEN {} ELSE {k \in ArgKeys : a.m[k] # "absent"}

\* the kind of JSON value the field of the shape with this name takes
FieldKind(k) == IF k = "name" THEN "string" ELSE "none"

\* C24: DecodeArgs into a message of the shape succeeds for a mapping of
\* JSON values whose known keys all hold a value of their field's kind,
\* whatever unknown keys it holds besides, and the known keys are applied;
\* it fails when a known key holds a value of another kind; a nil mapping
\* is decoded as the empty one.
C24_UnknownKeysDropped ==
    (convert.pc = "returned" /\ convert.msg = HelloRequest) =>
        LET a == convert.args
            known == Entries(a) \cap ShapeFields
        IN  /\ (/\ \A k \in Entries(a) : a.m[k] # "chan"
                /\ \A k \in known : a.m[k] = FieldKind(k)) =>
                   /\ ~convert.res.err
                   /\ convert.res.msg = IF "name" \in known THEN "Ada" ELSE ""
            /\ (\E k \in known : a.m[k] # FieldKind(k)) => convert.res.err
            /\ a.isNil => convert.res = [err |-> FALSE, text |-> "", msg |-> ""]

(***************************************************************************)
(* Properties of the response (under Spec).                                *)
(***************************************************************************)
\* C25: every body ServeHTTP writes is a JSON-RPC response with exactly one
\* of result and error; the error holds a code and a message and nothing
\* else; the id of the response is the id of the request it answers (none
\* when the request did not decode); and the call leaves one response.
C25_ResultXorError ==
    (req # NoRequest /\ w.body # NoBody) =>
        /\ w.body.kind = "json"
        /\ ("result" \in DOMAIN w.body) # ("error" \in DOMAIN w.body)
        /\ "error" \in DOMAIN w.body =>
              /\ DOMAIN w.body.error = {"code", "message"}
              /\ w.body.error.code \in Int
        /\ w.body.id = IF Decoded THEN req.ID ELSE NilID
        /\ w.status \in {StatusOK, StatusBadRequest}

(***************************************************************************)
(* Termination of the option decoder (under DecSpec).                      *)
(***************************************************************************)
\* one step of a walk: it returns; or the loop goes round with a proper
\* suffix of its bytes; or a sub-decoder is entered on a run that lies
\* inside the bytes, behind a tag and a length
WalkStep ==
    \/ dpc' = "returned" /\ raw' = raw
    \/ dpc' = dpc /\ \E k \in 1..Len(raw) : raw' = Drop(raw, k)
    \/ /\ dpc' \notin {dpc, "returned"}
       /\ \E i \in 2..Len(raw), n \in 0..Len(raw) :
              i + n <= Len(raw) /\ raw' = SubSeq(raw, i + 1, i + n)

\* C26: every walk terminates: each step of findExtension,
\* parseMethodOptions, parseServiceOptions and parseToolOptions returns or
\* goes on with strictly fewer bytes, all of them inside the bytes it had;
\* so a call makes at most as many steps as its bytes are long.
C26_WalkTerminates == [][WalkStep]_vars

\* ToolFromMethod has returned from a payload that starts with a
\* length-delimited field 9 of length zero and goes on with a name whose
\* length runs past the end: the walk stopped there
C26_Witness ==
    /\ dpc = "returned" /\ target = "method"
    /\ unknown = Extension("method", BytesField(9, <<>>) \o <<10, 5, 97>>)
    /\ raw = <<10, 5, 97>>

(***************************************************************************)
(* Properties of a running tool handler (under ConcSpec).                  *)
(***************************************************************************)
\* the goroutines inside tool.Handler
Running == {p \in Procs : pc[p] = "call_running"}

\* C27: a goroutine inside tool.Handler holds mux.mu in no way; a
\* RegisterTool, tools/list or tools/call that meets only idle goroutines
\* and running handlers takes the lock at once, however long the handlers
\* run; and the handler that runs and answers is the one the lookup found,
\* whatever is registered under the name while it runs.
C27_InvokerOutsideLock ==
    /\ [](\A p \in Running : p \notin mu.r /\ mu.w # p /\ found[p].exists)
    /\ [](\A q \in Procs \ Running :
             (\A p \in Procs \ {q} : p \in Running \/ pc[p] = "idle") =>
                 /\ pc[q] = "reg_lock" => ENABLED Lock(q)
                 /\ pc[q] = "reg_wait" => ENABLED LockAcquired(q)
                 /\ pc[q] = "list_rlock" => ENABLED ListRLock(q)
                 /\ pc[q] = "call_rlock" => ENABLED CallRLock(q))
    /\ [][\A p \in Running :
             /\ found'[p] = found[p]
             /\ pc'[p] # "call_running" =>
                   /\ pc'[p] = "done"
                   /\ \E r \in HandlerResults(found[p].tool, Arguments(decoded[p].Params)) :
                         resp'[p] = CallToolResponse(decoded[p].ID, r)]_vars

\* a handler runs while another goroutine has registered another tool
\* under its name and is about to release the write lock
C27_Witness ==
    \E p, q \in Procs :
        /\ pc[p] = "call_running"
        /\ pc[q] = "reg_unlock" /\ mu.w = q
        /\ found[p].tool.Name \in DOMAIN tools
        /\ tools[found[p].tool.Name] # found[p].tool

(***************************************************************************)
(* The frame of a dispatch (under Spec).                                   *)
(***************************************************************************)
\* C28: a ServeHTTP call of any kind (OPTIONS, a request that is not a
\* POST or does not parse, initialize, notifications, tools/list,
\* tools/call that succeeds or fails, a method that is not recognized)
\* leaves mux.tools and mux.metadata as they are; after any sequence of
\* calls the registry maps each name to the last tool RegisterTool was
\* given for it, and the metadata is what NewMCPServeMux was given.
C28_DispatchKeepsRegistry ==
    /\ [](tools = registered /\ metadata = ServerMetadata)
    /\ [][req' # NoRequest => (tools' = tools /\ metadata' = metadata)]_vars

\* a tools/call whose handler failed has been answered, and the failing
\* tool is still registered
C28_Witness ==
    /\ Decoded /\ req.Method = "tools/call"
    /\ calls # <<>> /\ ErrorCode(-32000)
    /\ ToolName(req.Params).s \in DOMAIN tools
    /\ tools = registered

====
